---- MODULE Spec2Model ----
(***************************************************************************)
(* Widget snapshot reconstruction of zulipterminal/widget.py:              *)
(* find_widget_type, process_todo_widget and process_poll_widget, each     *)
(* called on a list of submessages.  A run of the model is one call: Init  *)
(* draws the function and its argument, the actions are the iterations of  *)
(* the function's loop and its return (or the exception that leaves it).   *)
(***************************************************************************)
EXTENDS Integers, Sequences, FiniteSets, TLC

(***************************************************************************)
(* Python values.  A value carries its type as the name of its only field, *)
(* so values of different types are never equal and never compared.        *)
(***************************************************************************)
StrV(s) ==
    [str |-> s]

IntV(n) ==
    [int |-> n]

BoolV(b) ==
    [bool |-> b]

None ==
    [none |-> TRUE]

ListV(xs) ==
    [list |-> xs]

DictV(d) ==
    [dict |-> d]

IsStr(v) ==
    DOMAIN v = {"str"}

IsInt(v) ==
    DOMAIN v = {"int"}

IsBool(v) ==
    DOMAIN v = {"bool"}

IsNone(v) ==
    DOMAIN v = {"none"}

IsList(v) ==
    DOMAIN v = {"list"}

IsDict(v) ==
    DOMAIN v = {"dict"}

\* Python ==: bool is a subclass of int (True == 1, False == 0); values of
\* otherwise different types are unequal.
IsNumber(v) ==
    IsInt(v) \/ IsBool(v)

NumberOf(v) ==
    IF IsInt(v) THEN v.int ELSE IF v.bool THEN 1 ELSE 0

PyEq(a, b) ==
    IF IsNumber(a) /\ IsNumber(b) THEN NumberOf(a) = NumberOf(b) ELSE a = b

\* Python truthiness of the values a content field can hold.
Truthy(v) ==
    CASE IsNone(v) -> FALSE
      [] IsStr(v) -> v.str # ""
      [] IsNumber(v) -> NumberOf(v) # 0
      [] IsList(v) -> Len(v.list) > 0
      [] OTHER -> TRUE

Digits ==
    <<"0", "1", "2", "3", "4", "5", "6", "7", "8", "9">>

RECURSIVE NatStr(_)
NatStr(n) ==
    IF n < 10 THEN Digits[n + 1] ELSE NatStr(n \div 10) \o Digits[(n % 10) + 1]

\* str(v) and the f-string conversion "{v}" of the scalar values.
PyStr(v) ==
    CASE IsStr(v) -> v.str
      [] IsBool(v) -> IF v.bool THEN "True" ELSE "False"
      [] IsInt(v) -> IF v.int < 0 THEN "-" \o NatStr(0 - v.int) ELSE NatStr(v.int)
      [] IsNone(v) -> "None"

\* d.get(key, default) and "key in d" on a dict value.
HasKey(d, key) ==
    key \in DOMAIN d.dict

Get(d, key, default) ==
    IF HasKey(d, key) THEN d.dict[key] ELSE default

(***************************************************************************)
(* The content strings of the submessages, and json.loads on them.         *)
(***************************************************************************)
TxtPollCreate ==
    "{\"widget_type\":\"poll\",\"extra_data\":{\"question\":\"Q?\",\"options\":[\"A\",\"B\"]}}"
TxtPollCreateNoQuestion ==
    "{\"widget_type\":\"poll\",\"extra_data\":{\"options\":[\"A\"]}}"
TxtPollBare ==
    "{\"widget_type\":\"poll\"}"
TxtQuestion ==
    "{\"type\":\"question\",\"question\":\"R?\"}"
TxtVoteUp ==
    "{\"type\":\"vote\",\"key\":\"canned,0\",\"vote\":1}"
TxtVoteDown ==
    "{\"type\":\"vote\",\"key\":\"canned,0\",\"vote\":-1}"
TxtVoteUpUser ==
    "{\"type\":\"vote\",\"key\":\"5,0\",\"vote\":1}"
TxtVoteUnknownKey ==
    "{\"type\":\"vote\",\"key\":\"canned,9\",\"vote\":1}"
TxtVoteZero ==
    "{\"type\":\"vote\",\"key\":\"canned,0\",\"vote\":0}"
TxtVoteTrue ==
    "{\"type\":\"vote\",\"key\":\"canned,0\",\"vote\":true}"
TxtNewOptionC ==
    "{\"type\":\"new_option\",\"idx\":0,\"option\":\"C\"}"
TxtNewOptionD ==
    "{\"type\":\"new_option\",\"idx\":0,\"option\":\"D\"}"
TxtOtherType ==
    "{\"type\":\"zzz\"}"
TxtJsonList ==
    "[1]"
TxtTodoCreate ==
    "{\"widget_type\":\"todo\",\"extra_data\":{\"task_list_title\":\"\",\"tasks\":[{\"task\":\"x\"}]}}"
TxtTodoCreateTitled ==
    "{\"widget_type\":\"todo\",\"extra_data\":{\"task_list_title\":\"T\",\"tasks\":[{\"task\":\"x\",\"desc\":\"d\"}]}}"
TxtTodoCreateNoTitle ==
    "{\"widget_type\":\"todo\",\"extra_data\":{\"tasks\":[{\"task\":\"w\"}]}}"
TxtTodoCreateNull ==
    "{\"widget_type\":\"todo\",\"extra_data\":null}"
TxtTodoBare ==
    "{\"widget_type\":\"todo\"}"
TxtNewTaskY ==
    "{\"type\":\"new_task\",\"key\":0,\"task\":\"y\"}"
TxtNewTaskZ ==
    "{\"type\":\"new_task\",\"key\":0,\"task\":\"z\",\"desc\":\"e\"}"
TxtStrikeCanned ==
    "{\"type\":\"strike\",\"key\":\"0,canned\"}"
TxtStrikeUser ==
    "{\"type\":\"strike\",\"key\":\"0,5\"}"
TxtStrikeUnknownKey ==
    "{\"type\":\"strike\",\"key\":\"9,canned\"}"
TxtNewTitle ==
    "{\"type\":\"new_task_list_title\",\"title\":\"U\"}"
TxtNewTitleMissing ==
    "{\"type\":\"new_task_list_title\"}"
TxtQuiz ==
    "{\"widget_type\":\"quiz\"}"
TxtWidgetTypeNull ==
    "{\"widget_type\":null}"
TxtWidgetTypeInt ==
    "{\"widget_type\":7}"
TxtNotJson ==
    "not json"

JsonDocuments ==
    TxtPollCreate :>
        DictV([widget_type |-> StrV("poll"), extra_data |-> DictV([question |-> StrV("Q?"), options |-> ListV(<<StrV("A"), StrV("B")>>)])]) @@
    TxtPollCreateNoQuestion :>
        DictV([widget_type |-> StrV("poll"), extra_data |-> DictV([options |-> ListV(<<StrV("A")>>)])]) @@
    TxtPollBare :>
        DictV([widget_type |-> StrV("poll")]) @@
    TxtQuestion :>
        DictV([type |-> StrV("question"), question |-> StrV("R?")]) @@
    TxtVoteUp :>
        DictV([type |-> StrV("vote"), key |-> StrV("canned,0"), vote |-> IntV(1)]) @@
    TxtVoteDown :>
        DictV([type |-> StrV("vote"), key |-> StrV("canned,0"), vote |-> IntV(-1)]) @@
    TxtVoteUpUser :>
        DictV([type |-> StrV("vote"), key |-> StrV("5,0"), vote |-> IntV(1)]) @@
    TxtVoteUnknownKey :>
        DictV([type |-> StrV("vote"), key |-> StrV("canned,9"), vote |-> IntV(1)]) @@
    TxtVoteZero :>
        DictV([type |-> StrV("vote"), key |-> StrV("canned,0"), vote |-> IntV(0)]) @@
    TxtVoteTrue :>
        DictV([type |-> StrV("vote"), key |-> StrV("canned,0"), vote |-> BoolV(TRUE)]) @@
    TxtNewOptionC :>
        DictV([type |-> StrV("new_option"), idx |-> IntV(0), option |-> StrV("C")]) @@
    TxtNewOptionD :>
        DictV([type |-> StrV("new_option"), idx |-> IntV(0), option |-> StrV("D")]) @@
    TxtOtherType :>
        DictV([type |-> StrV("zzz")]) @@
    TxtJsonList :>
        ListV(<<IntV(1)>>) @@
    TxtTodoCreate :>
        DictV([widget_type |-> StrV("todo"), extra_data |-> DictV([task_list_title |-> StrV(""), tasks |-> ListV(<<DictV([task |-> StrV("x")])>>)])]) @@
    TxtTodoCreateTitled :>
        DictV([widget_type |-> StrV("todo"), extra_data |-> DictV([task_list_title |-> StrV("T"), tasks |-> ListV(<<DictV([task |-> StrV("x"), desc |-> StrV("d")])>>)])]) @@
    TxtTodoCreateNoTitle :>
        DictV([widget_type |-> StrV("todo"), extra_data |-> DictV([tasks |-> ListV(<<DictV([task |-> StrV("w")])>>)])]) @@
    TxtTodoCreateNull :>
        DictV([widget_type |-> StrV("todo"), extra_data |-> None]) @@
    TxtTodoBare :>
        DictV([widget_type |-> StrV("todo")]) @@
    TxtNewTaskY :>
        DictV([type |-> StrV("new_task"), key |-> IntV(0), task |-> StrV("y")]) @@
    TxtNewTaskZ :>
        DictV([type |-> StrV("new_task"), key |-> IntV(0), task |-> StrV("z"), desc |-> StrV("e")]) @@
    TxtStrikeCanned :>
        DictV([type |-> StrV("strike"), key |-> StrV("0,canned")]) @@
    TxtStrikeUser :>
        DictV([type |-> StrV("strike"), key |-> StrV("0,5")]) @@
    TxtStrikeUnknownKey :>
        DictV([type |-> StrV("strike"), key |-> StrV("9,canned")]) @@
    TxtNewTitle :>
        DictV([type |-> StrV("new_task_list_title"), title |-> StrV("U")]) @@
    TxtNewTitleMissing :>
        DictV([type |-> StrV("new_task_list_title")]) @@
    TxtQuiz :>
        DictV([widget_type |-> StrV("quiz")]) @@
    TxtWidgetTypeNull :>
        DictV([widget_type |-> None]) @@
    TxtWidgetTypeInt :>
        DictV([widget_type |-> IntV(7)])

\* json.loads(text): the decoded document, or JSONDecodeError.
json_loads(text) ==
    IF text \in DOMAIN JsonDocuments
    THEN [exc |-> "none", value |-> JsonDocuments[text]]
    ELSE [exc |-> "JSONDecodeError"]

(***************************************************************************)
(* Submessages, and the inputs a call is made with.                        *)
(***************************************************************************)
Submessage(content, sender_id, msg_type) ==
    [content |-> content, sender_id |-> sender_id, msg_type |-> msg_type]

Widget(text, sender_id) ==
    Submessage(StrV(text), sender_id, "widget")

\* Longest list of submessages a call is made with.
MaxLen ==
    3

PollSubmessages ==
    { Widget(TxtPollCreate, 5), Widget(TxtPollCreateNoQuestion, 5),
      Widget(TxtQuestion, 5),
      Widget(TxtVoteUp, 5), Widget(TxtVoteDown, 5),
      Widget(TxtVoteUnknownKey, 5), Widget(TxtVoteTrue, 6),
      Widget(TxtNewOptionC, 5), Widget(TxtNewOptionD, 5),
      Widget(TxtOtherType, 5), Widget(TxtTodoCreate, 5),
      Widget(TxtJsonList, 5), Widget(TxtNotJson, 5),
      Submessage(StrV(TxtVoteUp), 6, "text"), Submessage(None, 5, "widget") }

TodoSubmessages ==
    { Widget(TxtTodoCreate, 5), Widget(TxtTodoCreateTitled, 5),
      Widget(TxtTodoCreateNoTitle, 5), Widget(TxtTodoCreateNull, 5),
      Widget(TxtTodoBare, 5),
      Widget(TxtNewTaskY, 5), Widget(TxtNewTaskZ, 5),
      Widget(TxtStrikeCanned, 5), Widget(TxtStrikeUnknownKey, 5),
      Widget(TxtNewTitle, 5), Widget(TxtNewTitleMissing, 5),
      Widget(TxtOtherType, 5), Widget(TxtPollCreate, 5),
      Widget(TxtNotJson, 5),
      Submessage(StrV(TxtStrikeCanned), 6, "text"), Submessage(None, 5, "widget") }

ClassifierSubmessages ==
    { Widget(TxtPollCreate, 5), Widget(TxtTodoCreate, 5), Widget(TxtPollBare, 5),
      Widget(TxtQuiz, 5), Widget(TxtWidgetTypeNull, 5), Widget(TxtWidgetTypeInt, 5),
      Widget(TxtVoteUp, 5), Widget(TxtJsonList, 5), Widget(TxtNotJson, 5),
      Widget("", 5), Submessage(None, 5, "widget"), Submessage(IntV(7), 5, "widget") }

SeqsUpTo(S, n) ==
    UNION { [1..k -> S] : k \in 0..n }

(***************************************************************************)
(* process_poll_widget: one iteration of its loop.                         *)
(***************************************************************************)
EmptyDict ==
    [k \in {} |-> k]

\* d[key] = value on a Python dict held as a function.
Put(d, key, value) ==
    (key :> value) @@ d

PollLocals(exc, question, opts) ==
    [exc |-> exc, question |-> question, options |-> opts]

CannedOptionId(i) ==
    "canned," \o NatStr(i)

UserOptionId(sender_id, idx) ==
    NatStr(sender_id) \o "," \o PyStr(idx)

\* for i, option in enumerate(items): options["canned,<i>"] = {option, []}
RECURSIVE RegisterOptions(_, _, _)
RegisterOptions(opts, items, i) ==
    IF i >= Len(items) THEN opts
    ELSE RegisterOptions(
             Put(opts, CannedOptionId(i), [option |-> items[i + 1], votes |-> <<>>]),
             items, i + 1)

InList(x, xs) ==
    \E j \in 1..Len(xs) : xs[j] = x

\* ListRemove as list.pop(0): drops the first element, whatever it is.
ListRemoveHead(xs, x) ==
    Tail(xs)

\* list.remove(x): drops the first occurrence of x.
ListRemove(xs, x) ==
    LET first == CHOOSE j \in 1..Len(xs) : xs[j] = x /\ \A k \in 1..(j - 1) : xs[k] # x
    IN  [k \in 1..(Len(xs) - 1) |-> IF k < first THEN xs[k] ELSE xs[k + 1]]

\* PollCreation starting from options = {}: the options registered before
\* the creation are dropped.
PollCreationFromScratch(question, opts, widget) ==
    IF ~HasKey(widget, "extra_data") THEN PollLocals("KeyError", question, opts)
    ELSE LET extra_data == widget.dict["extra_data"] IN
         IF ~IsDict(extra_data) THEN PollLocals("TypeError", question, opts)
         ELSE IF ~HasKey(extra_data, "question") THEN PollLocals("KeyError", question, opts)
         ELSE PollLocals("none", extra_data.dict["question"],
                         RegisterOptions(EmptyDict,
                                         Get(extra_data, "options", ListV(<<>>)).list, 0))

PollCreation(question, opts, widget) ==
    IF ~HasKey(widget, "extra_data") THEN PollLocals("KeyError", question, opts)
    ELSE LET extra_data == widget.dict["extra_data"] IN
         IF ~IsDict(extra_data) THEN PollLocals("TypeError", question, opts)
         ELSE IF ~HasKey(extra_data, "question") THEN PollLocals("KeyError", question, opts)
         ELSE PollLocals("none", extra_data.dict["question"],
                         RegisterOptions(opts, Get(extra_data, "options", ListV(<<>>)).list, 0))

PollQuestion(question, opts, widget) ==
    IF ~HasKey(widget, "question") THEN PollLocals("KeyError", question, opts)
    ELSE PollLocals("none", widget.dict["question"], opts)

\* PollVote with "sender_id not in votes" left out of the vote == 1 branch.
PollVoteAppendAlways(question, opts, widget, sender_id) ==
    IF ~HasKey(widget, "key") \/ ~HasKey(widget, "vote")
    THEN PollLocals("KeyError", question, opts)
    ELSE LET option_id == widget.dict["key"]
             vote_type == widget.dict["vote"]
         IN  IF ~(IsStr(option_id) /\ option_id.str \in DOMAIN opts)
             THEN PollLocals("none", question, opts)
             ELSE LET id == option_id.str
                      votes == opts[id].votes
                  IN  IF PyEq(vote_type, IntV(1))
                      THEN PollLocals("none", question,
                               [opts EXCEPT ![id].votes = Append(votes, sender_id)])
                      ELSE IF PyEq(vote_type, IntV(-1)) /\ InList(sender_id, votes)
                      THEN PollLocals("none", question,
                               [opts EXCEPT ![id].votes = ListRemove(votes, sender_id)])
                      ELSE PollLocals("none", question, opts)

\* PollVote with votes.insert(0, sender_id) in place of votes.append.
PollVotePrepends(question, opts, widget, sender_id) ==
    IF ~HasKey(widget, "key") \/ ~HasKey(widget, "vote")
    THEN PollLocals("KeyError", question, opts)
    ELSE LET option_id == widget.dict["key"]
             vote_type == widget.dict["vote"]
         IN  IF ~(IsStr(option_id) /\ option_id.str \in DOMAIN opts)
             THEN PollLocals("none", question, opts)
             ELSE LET id == option_id.str
                      votes == opts[id].votes
                  IN  IF PyEq(vote_type, IntV(1)) /\ ~InList(sender_id, votes)
                      THEN PollLocals("none", question,
                               [opts EXCEPT ![id].votes = <<sender_id>> \o votes])
                      ELSE IF PyEq(vote_type, IntV(-1)) /\ InList(sender_id, votes)
                      THEN PollLocals("none", question,
                               [opts EXCEPT ![id].votes = ListRemove(votes, sender_id)])
                      ELSE PollLocals("none", question, opts)

\* PollVote as a toggle: vote == 1 from a sender already in the votes removes
\* the sender.
PollVoteToggles(question, opts, widget, sender_id) ==
    IF ~HasKey(widget, "key") \/ ~HasKey(widget, "vote")
    THEN PollLocals("KeyError", question, opts)
    ELSE LET option_id == widget.dict["key"]
             vote_type == widget.dict["vote"]
         IN  IF ~(IsStr(option_id) /\ option_id.str \in DOMAIN opts)
             THEN PollLocals("none", question, opts)
             ELSE LET id == option_id.str
                      votes == opts[id].votes
                  IN  IF PyEq(vote_type, IntV(1)) /\ ~InList(sender_id, votes)
                      THEN PollLocals("none", question,
                               [opts EXCEPT ![id].votes = Append(votes, sender_id)])
                      ELSE IF InList(sender_id, votes)
                      THEN PollLocals("none", question,
                               [opts EXCEPT ![id].votes = ListRemove(votes, sender_id)])
                      ELSE PollLocals("none", question, opts)

PollVote(question, opts, widget, sender_id) ==
    IF ~HasKey(widget, "key") \/ ~HasKey(widget, "vote")
    THEN PollLocals("KeyError", question, opts)
    ELSE LET option_id == widget.dict["key"]
             vote_type == widget.dict["vote"]
         IN  IF IsList(option_id) \/ IsDict(option_id)
             THEN PollLocals("TypeError", question, opts)
             ELSE IF ~(IsStr(option_id) /\ option_id.str \in DOMAIN opts)
             THEN PollLocals("none", question, opts)
             ELSE LET id == option_id.str
                      votes == opts[id].votes
                  IN  IF PyEq(vote_type, IntV(1)) /\ ~InList(sender_id, votes)
                      THEN PollLocals("none", question,
                               [opts EXCEPT ![id].votes = Append(votes, sender_id)])
                      ELSE IF PyEq(vote_type, IntV(-1)) /\ InList(sender_id, votes)
                      THEN PollLocals("none", question,
                               [opts EXCEPT ![id].votes = ListRemove(votes, sender_id)])
                      ELSE PollLocals("none", question, opts)

\* PollNewOption as options.setdefault(option_id, ...): an id already
\* registered keeps its entry.
PollNewOptionKeepsFirst(question, opts, widget, sender_id) ==
    IF ~HasKey(widget, "idx") \/ ~HasKey(widget, "option")
    THEN PollLocals("KeyError", question, opts)
    ELSE IF UserOptionId(sender_id, widget.dict["idx"]) \in DOMAIN opts
    THEN PollLocals("none", question, opts)
    ELSE PollLocals("none", question,
             Put(opts, UserOptionId(sender_id, widget.dict["idx"]),
                 [option |-> widget.dict["option"], votes |-> <<>>]))

PollNewOption(question, opts, widget, sender_id) ==
    IF ~HasKey(widget, "idx") \/ ~HasKey(widget, "option")
    THEN PollLocals("KeyError", question, opts)
    ELSE PollLocals("none", question,
             Put(opts, UserOptionId(sender_id, widget.dict["idx"]),
                 [option |-> widget.dict["option"], votes |-> <<>>]))

\* PollEntry without the msg_type == "widget" test of the entry filter.
PollEntryAnyMsgType(question, opts, entry) ==
    IF ~IsStr(entry.content)
    THEN PollLocals("none", question, opts)
    ELSE LET raw == json_loads(entry.content.str) IN
         IF raw.exc # "none" THEN PollLocals(raw.exc, question, opts)
         ELSE LET widget == raw.value IN
              IF ~IsDict(widget) THEN PollLocals("AttributeError", question, opts)
              ELSE IF PyEq(Get(widget, "widget_type", None), StrV("poll"))
                   THEN PollCreation(question, opts, widget)
              ELSE IF PyEq(Get(widget, "type", None), StrV("question"))
                   THEN PollQuestion(question, opts, widget)
              ELSE IF PyEq(Get(widget, "type", None), StrV("vote"))
                   THEN PollVote(question, opts, widget, entry.sender_id)
              ELSE IF PyEq(Get(widget, "type", None), StrV("new_option"))
                   THEN PollNewOption(question, opts, widget, entry.sender_id)
              ELSE PollLocals("none", question, opts)

\* The body of "for entry in poll_content", from the locals before it to the
\* locals after it, or to the exception that leaves the function.
PollEntry(question, opts, entry) ==
    IF ~(entry.msg_type = "widget" /\ IsStr(entry.content))
    THEN PollLocals("none", question, opts)
    ELSE LET raw == json_loads(entry.content.str) IN
         IF raw.exc # "none" THEN PollLocals(raw.exc, question, opts)
         ELSE LET widget == raw.value IN
              IF ~IsDict(widget) THEN PollLocals("AttributeError", question, opts)
              ELSE IF PyEq(Get(widget, "widget_type", None), StrV("poll"))
                   THEN PollCreation(question, opts, widget)
              ELSE IF PyEq(Get(widget, "type", None), StrV("question"))
                   THEN PollQuestion(question, opts, widget)
              ELSE IF PyEq(Get(widget, "type", None), StrV("vote"))
                   THEN PollVote(question, opts, widget, entry.sender_id)
              ELSE IF PyEq(Get(widget, "type", None), StrV("new_option"))
                   THEN PollNewOption(question, opts, widget, entry.sender_id)
              ELSE PollLocals("none", question, opts)

(***************************************************************************)
(* process_todo_widget: one iteration of its loop.                         *)
(***************************************************************************)
TodoLocals(exc, t, ts) ==
    [exc |-> exc, title |-> t, tasks |-> ts]

CannedTaskId(i) ==
    NatStr(i) \o ",canned"

UserTaskId(key, sender_id) ==
    PyStr(key) \o "," \o NatStr(sender_id)

NewTask(task) ==
    [task |-> PyStr(task.dict["task"]),
     desc |-> PyStr(Get(task, "desc", StrV(""))),
     completed |-> FALSE]

\* RegisterTasks numbering the canned tasks from the number of tasks held,
\* in place of the index in the event.
RECURSIVE RegisterTasksNextFree(_, _, _, _)
RegisterTasksNextFree(t, ts, items, i) ==
    IF i >= Len(items) THEN TodoLocals("none", t, ts)
    ELSE IF ~HasKey(items[i + 1], "task") THEN TodoLocals("KeyError", t, ts)
    ELSE RegisterTasksNextFree(
             t, Put(ts, CannedTaskId(Cardinality(DOMAIN ts)), NewTask(items[i + 1])),
             items, i + 1)

\* for i, task in enumerate(items): tasks["<i>,canned"] = {task, desc, False}
RECURSIVE RegisterTasks(_, _, _, _)
RegisterTasks(t, ts, items, i) ==
    IF i >= Len(items) THEN TodoLocals("none", t, ts)
    ELSE IF ~HasKey(items[i + 1], "task") THEN TodoLocals("KeyError", t, ts)
    ELSE RegisterTasks(t, Put(ts, CannedTaskId(i), NewTask(items[i + 1])), items, i + 1)

\* TodoCreation reading an absent or null extra_data as an empty one.
TodoCreationWithoutExtraData(t, ts, widget) ==
    IF HasKey(widget, "extra_data") /\ ~IsNone(widget.dict["extra_data"])
    THEN LET extra_data == widget.dict["extra_data"]
             given == Get(extra_data, "task_list_title", StrV(""))
             new_title == IF PyEq(given, StrV("")) THEN StrV("Task list") ELSE given
         IN  RegisterTasks(new_title, ts, Get(extra_data, "tasks", ListV(<<>>)).list, 0)
    ELSE TodoLocals("none", StrV("Task list"), ts)

TodoCreation(t, ts, widget) ==
    IF HasKey(widget, "extra_data") /\ ~IsNone(widget.dict["extra_data"])
    THEN LET extra_data == widget.dict["extra_data"]
             given == Get(extra_data, "task_list_title", StrV(""))
             new_title == IF PyEq(given, StrV("")) THEN StrV("Task list") ELSE given
         IN  RegisterTasks(new_title, ts, Get(extra_data, "tasks", ListV(<<>>)).list, 0)
    ELSE TodoLocals("none", t, ts)

\* TodoNewTask keeping the completed flag of a task already held at the id.
TodoNewTaskKeepsCompleted(t, ts, widget, sender_id) ==
    IF ~HasKey(widget, "key") \/ ~HasKey(widget, "task")
    THEN TodoLocals("KeyError", t, ts)
    ELSE LET task_id == UserTaskId(widget.dict["key"], sender_id) IN
         TodoLocals("none", t,
             Put(ts, task_id,
                 [NewTask(widget) EXCEPT
                     !.completed = task_id \in DOMAIN ts /\ ts[task_id].completed]))

TodoNewTask(t, ts, widget, sender_id) ==
    IF ~HasKey(widget, "key") \/ ~HasKey(widget, "task")
    THEN TodoLocals("KeyError", t, ts)
    ELSE TodoLocals("none", t,
             Put(ts, UserTaskId(widget.dict["key"], sender_id), NewTask(widget)))

\* TodoStrike with "completed = True" in place of the negation.
TodoStrikeSetsCompleted(t, ts, widget) ==
    IF ~HasKey(widget, "key") THEN TodoLocals("KeyError", t, ts)
    ELSE LET task_id == PyStr(widget.dict["key"]) IN
         IF task_id \in DOMAIN ts
         THEN TodoLocals("none", t, [ts EXCEPT ![task_id].completed = TRUE])
         ELSE TodoLocals("none", t, ts)

TodoStrike(t, ts, widget) ==
    IF ~HasKey(widget, "key") THEN TodoLocals("KeyError", t, ts)
    ELSE LET task_id == PyStr(widget.dict["key"]) IN
         IF task_id \in DOMAIN ts
         THEN TodoLocals("none", t,
                  [ts EXCEPT ![task_id].completed = ~ts[task_id].completed])
         ELSE TodoLocals("none", t, ts)

\* TodoNewTitle with the creation's "Task list" default applied to an empty
\* title.
TodoNewTitleDefaults(t, ts, widget) ==
    TodoLocals("none",
               IF PyEq(Get(widget, "title", StrV("")), StrV(""))
               THEN StrV("Task list") ELSE Get(widget, "title", StrV("")),
               ts)

TodoNewTitle(t, ts, widget) ==
    TodoLocals("none", Get(widget, "title", StrV("")), ts)

\* The body of "for entry in todo_list".
TodoEntry(t, ts, entry) ==
    IF ~(entry.msg_type = "widget" /\ IsStr(entry.content))
    THEN TodoLocals("none", t, ts)
    ELSE LET raw == json_loads(entry.content.str) IN
         IF raw.exc # "none" THEN TodoLocals(raw.exc, t, ts)
         ELSE LET widget == raw.value IN
              IF ~IsDict(widget) THEN TodoLocals("AttributeError", t, ts)
              ELSE IF PyEq(Get(widget, "widget_type", None), StrV("todo"))
                   THEN TodoCreation(t, ts, widget)
              ELSE IF PyEq(Get(widget, "type", None), StrV("new_task"))
                   THEN TodoNewTask(t, ts, widget, entry.sender_id)
              ELSE IF PyEq(Get(widget, "type", None), StrV("strike"))
                   THEN TodoStrike(t, ts, widget)
              ELSE IF PyEq(Get(widget, "type", None), StrV("new_task_list_title"))
                   THEN TodoNewTitle(t, ts, widget)
              ELSE TodoLocals("none", t, ts)

(***************************************************************************)
(* find_widget_type.                                                       *)
(***************************************************************************)
\* find_widget_type with loaded_content.get("widget_type"), no default.
find_widget_type_no_default(msgs) ==
    IF Len(msgs) = 0 THEN "unknown"
    ELSE LET content == msgs[1].content IN
         IF ~Truthy(content) \/ ~IsStr(content) THEN "unknown"
         ELSE LET loaded_content == json_loads(content.str) IN
              IF loaded_content.exc # "none" THEN "unknown"
              ELSE IF IsDict(loaded_content.value)
                   THEN PyStr(Get(loaded_content.value, "widget_type", None))
              ELSE "unknown"

\* find_widget_type reading submessages[-1] in place of submessages[0].
find_widget_type_last(msgs) ==
    IF Len(msgs) = 0 THEN "unknown"
    ELSE LET content == msgs[Len(msgs)].content IN
         IF ~Truthy(content) \/ ~IsStr(content) THEN "unknown"
         ELSE LET loaded_content == json_loads(content.str) IN
              IF loaded_content.exc # "none" THEN "unknown"
              ELSE IF IsDict(loaded_content.value)
                   THEN PyStr(Get(loaded_content.value, "widget_type", StrV("unknown")))
              ELSE "unknown"

find_widget_type(msgs) ==
    IF Len(msgs) = 0 THEN "unknown"
    ELSE LET content == msgs[1].content IN
         IF ~Truthy(content) \/ ~IsStr(content) THEN "unknown"
         ELSE LET loaded_content == json_loads(content.str) IN
              IF loaded_content.exc # "none" THEN "unknown"
              ELSE IF IsDict(loaded_content.value)
                   THEN PyStr(Get(loaded_content.value, "widget_type", StrV("unknown")))
              ELSE "unknown"

(***************************************************************************)
(* One call.                                                               *)
(***************************************************************************)
VARIABLES
    call,           \* the function called
    submessages,    \* its argument
    pc,             \* "loop", "returned" or "raised"
    pos,            \* entries of the argument the loop has consumed
    poll_question,  \* process_poll_widget's locals
    options,
    title,          \* process_todo_widget's locals
    tasks,
    hist,           \* the locals after 0, 1, ..., pos iterations
    exc,            \* the exception that left the function, or "none"
    ret             \* the value returned, None until then

vars ==
    <<call, submessages, pc, pos, poll_question, options, title, tasks, hist, exc, ret>>

PollSnapshot ==
    [question |-> poll_question, options |-> options]

TodoSnapshot ==
    [title |-> title, tasks |-> tasks]

Start ==
    /\ pc = "loop"
    /\ pos = 0
    /\ poll_question = StrV("")
    /\ options = EmptyDict
    /\ title = StrV("")
    /\ tasks = EmptyDict
    /\ hist = IF call = "process_poll_widget" THEN <<PollSnapshot>>
              ELSE IF call = "process_todo_widget" THEN <<TodoSnapshot>>
              ELSE <<>>
    /\ exc = "none"
    /\ ret = None

Init ==
    /\ \/ call = "process_poll_widget" /\ submessages \in SeqsUpTo(PollSubmessages, MaxLen)
       \/ call = "process_todo_widget" /\ submessages \in SeqsUpTo(TodoSubmessages, MaxLen)
       \/ call = "find_widget_type" /\ submessages \in SeqsUpTo(ClassifierSubmessages, MaxLen)
    /\ Start

PollIterate ==
    /\ call = "process_poll_widget" /\ pc = "loop" /\ pos < Len(submessages)
    /\ LET after == PollEntry(poll_question, options, submessages[pos + 1]) IN
         /\ exc' = after.exc
         /\ pc' = IF after.exc = "none" THEN "loop" ELSE "raised"
         /\ poll_question' = after.question
         /\ options' = after.options
         /\ hist' = IF after.exc = "none"
                    THEN Append(hist, [question |-> after.question, options |-> after.options])
                    ELSE hist
    /\ pos' = pos + 1
    /\ UNCHANGED <<call, submessages, title, tasks, ret>>

PollReturn ==
    /\ call = "process_poll_widget" /\ pc = "loop" /\ pos = Len(submessages)
    /\ pc' = "returned"
    /\ ret' = PollSnapshot
    /\ UNCHANGED <<call, submessages, pos, poll_question, options, title, tasks, hist, exc>>

TodoIterate ==
    /\ call = "process_todo_widget" /\ pc = "loop" /\ pos < Len(submessages)
    /\ LET after == TodoEntry(title, tasks, submessages[pos + 1]) IN
         /\ exc' = after.exc
         /\ pc' = IF after.exc = "none" THEN "loop" ELSE "raised"
         /\ title' = after.title
         /\ tasks' = after.tasks
         /\ hist' = IF after.exc = "none"
                    THEN Append(hist, [title |-> after.title, tasks |-> after.tasks])
                    ELSE hist
    /\ pos' = pos + 1
    /\ UNCHANGED <<call, submessages, poll_question, options, ret>>

TodoReturn ==
    /\ call = "process_todo_widget" /\ pc = "loop" /\ pos = Len(submessages)
    /\ pc' = "returned"
    /\ ret' = TodoSnapshot
    /\ UNCHANGED <<call, submessages, pos, poll_question, options, title, tasks, hist, exc>>

FindWidgetType ==
    /\ call = "find_widget_type" /\ pc = "loop"
    /\ pc' = "returned"
    /\ ret' = StrV(find_widget_type(submessages))
    /\ UNCHANGED <<call, submessages, pos, poll_question, options, title, tasks, hist, exc>>

Next ==
    \/ PollIterate
    \/ PollReturn
    \/ TodoIterate
    \/ TodoReturn
    \/ FindWidgetType

Spec ==
    Init /\ [][Next]_vars

TypeOK ==
    /\ pc \in {"loop", "returned", "raised"}
    /\ pos \in 0..Len(submessages)
    /\ (pc = "raised") = (exc # "none")

(***************************************************************************)
(* A second family of inputs: registrations, votes and strikes only, in    *)
(* longer lists, so that votes of several senders and repeated strikes     *)
(* meet on one option or task.                                             *)
(***************************************************************************)
MaxReplay ==
    5

PollReplaySubmessages ==
    { Widget(TxtPollCreate, 5), Widget(TxtNewOptionC, 5),
      Widget(TxtVoteUp, 5), Widget(TxtVoteDown, 5),
      Widget(TxtVoteUp, 6), Widget(TxtVoteUpUser, 6) }

TodoReplaySubmessages ==
    { Widget(TxtTodoCreateTitled, 5), Widget(TxtNewTaskY, 5),
      Widget(TxtStrikeCanned, 5), Widget(TxtStrikeCanned, 6), Widget(TxtStrikeUser, 6) }

InitReplay ==
    /\ \/ call = "process_poll_widget"
          /\ submessages \in SeqsUpTo(PollReplaySubmessages, MaxReplay)
       \/ call = "process_todo_widget"
          /\ submessages \in SeqsUpTo(TodoReplaySubmessages, MaxReplay)
       \/ call = "find_widget_type"
          /\ submessages \in SeqsUpTo({Widget(TxtPollCreate, 5), Widget(TxtTodoCreateTitled, 5)},
                                      MaxReplay)
    /\ Start

SpecReplay ==
    InitReplay /\ [][Next]_vars

(***************************************************************************)
(* Reading a submessage the way the reducers' dispatch reads it.           *)
(***************************************************************************)
\* The decoded content of a submessage that passes the entry filter, None
\* when it is filtered out or does not decode.
WidgetOf(entry) ==
    IF entry.msg_type = "widget" /\ IsStr(entry.content)
       /\ json_loads(entry.content.str).exc = "none"
    THEN json_loads(entry.content.str).value
    ELSE None

\* msg_type "widget", string content, and the content is not JSON or is
\* JSON that is not an object.
IsMalformed(entry) ==
    /\ entry.msg_type = "widget" /\ IsStr(entry.content)
    /\ ~IsDict(WidgetOf(entry))

HasField(entry, field, value) ==
    /\ IsDict(WidgetOf(entry))
    /\ PyEq(Get(WidgetOf(entry), field, None), StrV(value))

IsPollCreation(entry) ==
    HasField(entry, "widget_type", "poll")

IsVote(entry) ==
    ~IsPollCreation(entry) /\ HasField(entry, "type", "vote")

IsNewOption(entry) ==
    ~IsPollCreation(entry) /\ HasField(entry, "type", "new_option")

IsTodoCreation(entry) ==
    HasField(entry, "widget_type", "todo")

IsNewTask(entry) ==
    ~IsTodoCreation(entry) /\ HasField(entry, "type", "new_task")

IsStrike(entry) ==
    ~IsTodoCreation(entry) /\ HasField(entry, "type", "strike")

\* A poll creation without extra_data.question.
LacksQuestion(entry) ==
    /\ IsPollCreation(entry)
    /\ \/ ~HasKey(WidgetOf(entry), "extra_data")
       \/ ~IsDict(WidgetOf(entry).dict["extra_data"])
       \/ ~HasKey(WidgetOf(entry).dict["extra_data"], "question")

KeyOf(entry) ==
    WidgetOf(entry).dict["key"]

VoteOf(entry) ==
    WidgetOf(entry).dict["vote"]

IsPoll ==
    call = "process_poll_widget"

IsTodo ==
    call = "process_todo_widget"

\* Entry j of the argument has been applied: the loop consumed it and went on.
Applied(j) ==
    j \in 1..pos /\ j + 1 <= Len(hist)

\* The locals before and after entry j.
Before(j) ==
    hist[j]

After(j) ==
    hist[j + 1]

\* The entry the loop has just consumed.  Every earlier entry is the one just
\* consumed in an earlier state of the same call.
JustConsumed ==
    {j \in {pos} : j >= 1}

NoDuplicates(xs) ==
    \A a, b \in 1..Len(xs) : xs[a] = xs[b] => a = b

(***************************************************************************)
(* C1: in both reducers a malformed event (string content that is not      *)
(* JSON, or JSON that is not an object) never aborts the fold, and the     *)
(* snapshot returned is the one of the list without the malformed events.  *)
(***************************************************************************)
RECURSIVE PollFold(_, _, _)
PollFold(question, opts, msgs) ==
    IF Len(msgs) = 0 THEN PollLocals("none", question, opts)
    ELSE LET after == PollEntry(question, opts, Head(msgs)) IN
         IF after.exc # "none" THEN after
         ELSE PollFold(after.question, after.options, Tail(msgs))

RECURSIVE TodoFold(_, _, _)
TodoFold(t, ts, msgs) ==
    IF Len(msgs) = 0 THEN TodoLocals("none", t, ts)
    ELSE LET after == TodoEntry(t, ts, Head(msgs)) IN
         IF after.exc # "none" THEN after
         ELSE TodoFold(after.title, after.tasks, Tail(msgs))

WellFormedOnly(msgs) ==
    SelectSeq(msgs, LAMBDA entry : ~IsMalformed(entry))

C1_MalformedSkipped ==
    /\ (IsPoll \/ IsTodo) /\ pc = "raised" => ~IsMalformed(submessages[pos])
    /\ IsPoll /\ pc = "returned" =>
           LET clean == PollFold(StrV(""), EmptyDict, WellFormedOnly(submessages))
           IN  ret = [question |-> clean.question, options |-> clean.options]
    /\ IsTodo /\ pc = "returned" =>
           LET clean == TodoFold(StrV(""), EmptyDict, WellFormedOnly(submessages))
           IN  ret = [title |-> clean.title, tasks |-> clean.tasks]

(***************************************************************************)
(* C2: a poll creation without extra_data.question fails only its own      *)
(* application: no exception leaves process_poll_widget, and the question  *)
(* is the one held before the event.                                       *)
(***************************************************************************)
C2_MissingQuestionSkipped ==
    IsPoll =>
        \A j \in 1..pos :
            LacksQuestion(submessages[j]) =>
                /\ exc = "none"
                /\ Applied(j)
                /\ After(j).question = Before(j).question

(***************************************************************************)
(* C3: after every prefix of the list, the votes of every poll option hold *)
(* each sender_id at most once.                                            *)
(***************************************************************************)
C3_VotesHaveNoDuplicates ==
    IsPoll => \A id \in DOMAIN options : NoDuplicates(options[id].votes)

\* A sender voted +1 twice in a row on an option and is in its votes once,
\* next to another sender.
C3_Witness ==
    /\ IsPoll
    /\ \E j \in 1..(pos - 1) :
           /\ Applied(j) /\ Applied(j + 1)
           /\ submessages[j] = submessages[j + 1]
           /\ IsVote(submessages[j]) /\ VoteOf(submessages[j]) = IntV(1)
           /\ KeyOf(submessages[j]).str \in DOMAIN After(j + 1).options
           /\ Len(After(j + 1).options[KeyOf(submessages[j]).str].votes) = 2

(***************************************************************************)
(* C4: a strike whose key is the id of an existing task inverts the task's *)
(* completed flag and leaves its text and description alone; the same      *)
(* strike applied twice in a row restores the flag.                        *)
(***************************************************************************)
StrikesExisting(j) ==
    /\ Applied(j)
    /\ IsStrike(submessages[j])
    /\ PyStr(KeyOf(submessages[j])) \in DOMAIN Before(j).tasks

C4_StrikeIsInvolution ==
    IsTodo =>
        \A j \in 1..pos :
            StrikesExisting(j) =>
                LET id == PyStr(KeyOf(submessages[j])) IN
                /\ After(j).tasks[id].completed = ~Before(j).tasks[id].completed
                /\ After(j).tasks[id].task = Before(j).tasks[id].task
                /\ After(j).tasks[id].desc = Before(j).tasks[id].desc
                /\ Applied(j + 1) /\ IsStrike(submessages[j + 1])
                   /\ KeyOf(submessages[j + 1]) = KeyOf(submessages[j]) =>
                       After(j + 1).tasks[id] = Before(j).tasks[id]

\* A completed task was struck twice in a row and is completed again.
C4_Witness ==
    /\ IsTodo
    /\ \E j \in 1..(pos - 1) :
           /\ StrikesExisting(j) /\ StrikesExisting(j + 1)
           /\ KeyOf(submessages[j + 1]) = KeyOf(submessages[j])
           /\ Before(j).tasks[PyStr(KeyOf(submessages[j]))].completed
           /\ ~After(j).tasks[PyStr(KeyOf(submessages[j]))].completed
           /\ After(j + 1).tasks[PyStr(KeyOf(submessages[j]))].completed

(***************************************************************************)
(* C5: on an existing option whose votes do not hold sender s, vote(+1)    *)
(* from s directly followed by vote(-1) from s leaves the option's votes   *)
(* as they were; a vote(-1) from a sender not in the votes changes nothing.*)
(***************************************************************************)
VotesOn(j, value) ==
    /\ Applied(j)
    /\ IsVote(submessages[j])
    /\ VoteOf(submessages[j]) = IntV(value)
    /\ IsStr(KeyOf(submessages[j]))
    /\ KeyOf(submessages[j]).str \in DOMAIN Before(j).options

VotesBefore(j) ==
    Before(j).options[KeyOf(submessages[j]).str].votes

C5_VoteThenUnvoteRestores ==
    IsPoll =>
        \A j \in 1..pos :
            /\ VotesOn(j, 1) /\ ~InList(submessages[j].sender_id, VotesBefore(j))
               /\ VotesOn(j + 1, -1)
               /\ KeyOf(submessages[j + 1]) = KeyOf(submessages[j])
               /\ submessages[j + 1].sender_id = submessages[j].sender_id =>
                   After(j + 1).options[KeyOf(submessages[j]).str].votes = VotesBefore(j)
            /\ VotesOn(j, -1) /\ ~InList(submessages[j].sender_id, VotesBefore(j)) =>
                   After(j) = Before(j)

\* Sender s voted +1 then -1 on an option another sender had voted on, and
\* that other sender's vote is all that is left.
C5_Witness ==
    /\ IsPoll
    /\ \E j \in 1..(pos - 1) :
           /\ VotesOn(j, 1) /\ VotesOn(j + 1, -1)
           /\ KeyOf(submessages[j + 1]) = KeyOf(submessages[j])
           /\ submessages[j + 1].sender_id = submessages[j].sender_id
           /\ Len(VotesBefore(j)) = 1
           /\ ~InList(submessages[j].sender_id, VotesBefore(j))
           /\ After(j + 1).options[KeyOf(submessages[j]).str].votes = VotesBefore(j)

(***************************************************************************)
(* C6: registration events (poll creation, todo creation, new_option,      *)
(* new_task) are idempotent under exact replay.  As claimed: a copy of an  *)
(* already applied registration appended at any later position yields the  *)
(* snapshot of the list without the copy.                                  *)
(***************************************************************************)
IsRegistration(entry) ==
    \/ IsPoll /\ (IsPollCreation(entry) \/ IsNewOption(entry))
    \/ IsTodo /\ (IsTodoCreation(entry) \/ IsNewTask(entry))

C6_ReplayAnywhereIsIdempotent ==
    (IsPoll \/ IsTodo) /\ pc = "returned" =>
        LET n == Len(submessages) IN
        n >= 2 /\ IsRegistration(submessages[n])
        /\ (\E i \in 1..(n - 1) : submessages[i] = submessages[n]) =>
            ret = Before(n)

(***************************************************************************)
(* C6 as amended: a registration event applied again directly after itself *)
(* leaves the snapshot as it was after the first application.              *)
(***************************************************************************)
C6_ImmediateReplayIsIdempotent ==
    (IsPoll \/ IsTodo) =>
        \A j \in 1..pos :
            Applied(j) /\ Applied(j + 1) /\ IsRegistration(submessages[j])
            /\ submessages[j + 1] = submessages[j] =>
                After(j + 1) = After(j)

\* A todo creation was applied twice in a row on top of an earlier task, and
\* the tasks are those held after the first application.
C6_Witness ==
    /\ IsTodo
    /\ \E j \in 2..(pos - 1) :
           /\ Applied(j) /\ Applied(j + 1)
           /\ IsTodoCreation(submessages[j])
           /\ submessages[j + 1] = submessages[j]
           /\ Before(j).tasks # EmptyDict
           /\ After(j) # Before(j)
           /\ After(j + 1) = After(j)

(***************************************************************************)
(* C7: poll votes are toggles.  As claimed: the same vote event applied a  *)
(* second time in a row on an existing option changes the snapshot again.  *)
(***************************************************************************)
SameVoteTwice(j) ==
    /\ Applied(j) /\ Applied(j + 1)
    /\ IsVote(submessages[j])
    /\ submessages[j + 1] = submessages[j]
    /\ IsStr(KeyOf(submessages[j]))
    /\ KeyOf(submessages[j]).str \in DOMAIN Before(j).options

C7_VoteReplayFlipsAgain ==
    IsPoll => \A j \in 1..pos : SameVoteTwice(j) => After(j + 1) # After(j)

(***************************************************************************)
(* C7 as amended: the same vote event applied a second time in a row on an *)
(* existing option leaves the snapshot as it was after the first           *)
(* application; votes are idempotent, not toggles.                         *)
(***************************************************************************)
C7_VoteReplayIsIdempotent ==
    IsPoll => \A j \in 1..pos : SameVoteTwice(j) => After(j + 1) = After(j)

\* A vote(+1) that added its sender was applied again and added nothing.
C7_Witness ==
    /\ IsPoll
    /\ \E j \in 1..(pos - 1) :
           /\ SameVoteTwice(j)
           /\ VoteOf(submessages[j]) = IntV(1)
           /\ After(j) # Before(j)
           /\ After(j + 1) = After(j)

(***************************************************************************)
(* C8: find_widget_type never fails; it returns a string, and "unknown"    *)
(* for an empty list, for a first content that is absent or not a string,  *)
(* for a content that does not decode to a JSON object, and for an object  *)
(* without widget_type.                                                    *)
(***************************************************************************)
IsClassifier ==
    call = "find_widget_type"

FirstDecodes ==
    /\ Len(submessages) > 0
    /\ IsStr(submessages[1].content)
    /\ IsDict(WidgetOf([submessages[1] EXCEPT !.msg_type = "widget"]))

FirstWidget ==
    WidgetOf([submessages[1] EXCEPT !.msg_type = "widget"])

C8_ClassifierNeverFails ==
    IsClassifier =>
        /\ pc # "raised" /\ exc = "none"
        /\ pc = "returned" =>
               /\ IsStr(ret)
               /\ ~FirstDecodes => ret = StrV("unknown")
               /\ FirstDecodes /\ ~HasKey(FirstWidget, "widget_type") => ret = StrV("unknown")

\* The first content decoded to an object without widget_type and the result
\* is "unknown".
C8_Witness ==
    /\ IsClassifier /\ pc = "returned"
    /\ FirstDecodes /\ ~HasKey(FirstWidget, "widget_type")
    /\ ret = StrV("unknown")

(***************************************************************************)
(* C9: the classifier's result is determined by the first event alone.  As *)
(* claimed: the result is always one of "poll", "todo", "unknown".         *)
(***************************************************************************)
C9_ResultIsPollTodoOrUnknown ==
    IsClassifier /\ pc = "returned" =>
        ret \in {StrV("poll"), StrV("todo"), StrV("unknown")}

(***************************************************************************)
(* C9 as amended: the result is "unknown" or the string form of the first  *)
(* event's widget_type, whatever that is, and it is the result for the     *)
(* first event taken alone.                                                *)
(***************************************************************************)
C9_ResultIsFirstWidgetType ==
    IsClassifier /\ pc = "returned" =>
        /\ Len(submessages) = 0 => ret = StrV("unknown")
        /\ Len(submessages) > 0 =>
               /\ ret = StrV(find_widget_type(<<submessages[1]>>))
               /\ \/ ret = StrV("unknown")
                  \/ /\ FirstDecodes /\ HasKey(FirstWidget, "widget_type")
                     /\ ret = StrV(PyStr(FirstWidget.dict["widget_type"]))

\* The list goes on after a first event of widget_type "quiz", with an event
\* of another type, and the result is "quiz".
C9_Witness ==
    /\ IsClassifier /\ pc = "returned"
    /\ Len(submessages) >= 2
    /\ ret = StrV("quiz")
    /\ find_widget_type(<<submessages[Len(submessages)]>>) # "quiz"

(***************************************************************************)
(* C10: a poll vote whose key is not a registered option id, a poll vote   *)
(* on a registered option whose vote value is neither 1 nor -1, and a todo *)
(* strike whose key is not a registered task id each leave the whole       *)
(* snapshot unchanged.                                                     *)
(***************************************************************************)
VoteOnUnknownKey(j) ==
    /\ IsVote(submessages[j])
    /\ ~(IsStr(KeyOf(submessages[j])) /\ KeyOf(submessages[j]).str \in DOMAIN Before(j).options)

VoteWithOtherValue(j) ==
    /\ IsVote(submessages[j])
    /\ IsStr(KeyOf(submessages[j]))
    /\ KeyOf(submessages[j]).str \in DOMAIN Before(j).options
    /\ VoteOf(submessages[j]) \notin {IntV(1), IntV(-1)}

StrikeOnUnknownKey(j) ==
    /\ IsStrike(submessages[j])
    /\ PyStr(KeyOf(submessages[j])) \notin DOMAIN Before(j).tasks

C10_UnknownTargetIgnored ==
    \A j \in 1..pos :
        /\ IsPoll /\ Applied(j) /\ (VoteOnUnknownKey(j) \/ VoteWithOtherValue(j)) =>
               After(j) = Before(j)
        /\ IsTodo /\ Applied(j) /\ StrikeOnUnknownKey(j) =>
               After(j) = Before(j)

(***************************************************************************)
(* C11: an event that matches no case (msg_type other than "widget",       *)
(* content that is not a string, or a decoded object without a recognized  *)
(* discriminator, the other widget's creation included) changes nothing:   *)
(* the list with such events in it folds to the snapshot of the list       *)
(* without them, in both reducers.                                         *)
(***************************************************************************)
IsQuestion(entry) ==
    ~IsPollCreation(entry) /\ HasField(entry, "type", "question")

IsNewTitle(entry) ==
    ~IsTodoCreation(entry) /\ HasField(entry, "type", "new_task_list_title")

MatchesNoCase(entry) ==
    \/ entry.msg_type # "widget"
    \/ ~IsStr(entry.content)
    \/ /\ IsDict(WidgetOf(entry))
       /\ IsPoll => ~(IsPollCreation(entry) \/ IsQuestion(entry)
                      \/ IsVote(entry) \/ IsNewOption(entry))
       /\ IsTodo => ~(IsTodoCreation(entry) \/ IsNewTask(entry)
                      \/ IsStrike(entry) \/ IsNewTitle(entry))

MatchingOnly(msgs) ==
    SelectSeq(msgs, LAMBDA entry : ~MatchesNoCase(entry))

C11_UnmatchedEventsChangeNothing ==
    /\ IsPoll \/ IsTodo =>
           \A j \in JustConsumed :
               MatchesNoCase(submessages[j]) => Applied(j) /\ After(j) = Before(j)
    /\ IsPoll /\ pc = "returned" =>
           LET rest == PollFold(StrV(""), EmptyDict, MatchingOnly(submessages))
           IN  ret = [question |-> rest.question, options |-> rest.options]
    /\ IsTodo /\ pc = "returned" =>
           LET rest == TodoFold(StrV(""), EmptyDict, MatchingOnly(submessages))
           IN  ret = [title |-> rest.title, tasks |-> rest.tasks]

\* A vote carried by a submessage of another msg_type met the option it
\* names, and the snapshot returned is that of the list without it.
C11_Witness ==
    /\ IsPoll /\ pc = "returned"
    /\ \E j \in 1..pos :
           /\ submessages[j].msg_type # "widget"
           /\ IsStr(submessages[j].content)
           /\ "canned,0" \in DOMAIN Before(j).options
           /\ After(j) = Before(j)
    /\ Len(MatchingOnly(submessages)) < Len(submessages)
    /\ ret.options # EmptyDict

(***************************************************************************)
(* C12: last writer wins by position.  Of the new_option events (and of    *)
(* the new_task events) that target one id, the last in the list gives the *)
(* final entry its text, so swapping it with an earlier one of another     *)
(* text changes the final snapshot; the final poll question is that of the *)
(* last event that sets the question.                                      *)
(***************************************************************************)
OptionIdOf(entry) ==
    UserOptionId(entry.sender_id, WidgetOf(entry).dict["idx"])

TaskIdOf(entry) ==
    UserTaskId(KeyOf(entry), entry.sender_id)

Swap(msgs, i, j) ==
    [k \in 1..Len(msgs) |->
        IF k = i THEN msgs[j] ELSE IF k = j THEN msgs[i] ELSE msgs[k]]

LastNewOption(j) ==
    /\ IsNewOption(submessages[j])
    /\ \A k \in (j + 1)..Len(submessages) :
           IsNewOption(submessages[k]) =>
               OptionIdOf(submessages[k]) # OptionIdOf(submessages[j])

LastNewTask(j) ==
    /\ IsNewTask(submessages[j])
    /\ \A k \in (j + 1)..Len(submessages) :
           IsNewTask(submessages[k]) =>
               TaskIdOf(submessages[k]) # TaskIdOf(submessages[j])

SetsQuestion(entry) ==
    IsPollCreation(entry) \/ IsQuestion(entry)

QuestionOf(entry) ==
    IF IsPollCreation(entry)
    THEN WidgetOf(entry).dict["extra_data"].dict["question"]
    ELSE WidgetOf(entry).dict["question"]

C12_LastWriterWins ==
    /\ IsPoll /\ pc = "returned" =>
           \A j \in 1..Len(submessages) :
               /\ LastNewOption(j) =>
                      /\ ret.options[OptionIdOf(submessages[j])].option
                             = WidgetOf(submessages[j]).dict["option"]
                      /\ \A i \in 1..(j - 1) :
                             ( /\ IsNewOption(submessages[i])
                               /\ OptionIdOf(submessages[i]) = OptionIdOf(submessages[j])
                               /\ WidgetOf(submessages[i]).dict["option"]
                                      # WidgetOf(submessages[j]).dict["option"] ) =>
                                 LET swapped == PollFold(StrV(""), EmptyDict,
                                                         Swap(submessages, i, j))
                                 IN  /\ swapped.exc = "none"
                                     /\ ret # [question |-> swapped.question,
                                               options |-> swapped.options]
               /\ SetsQuestion(submessages[j])
                  /\ (\A k \in (j + 1)..Len(submessages) : ~SetsQuestion(submessages[k])) =>
                      ret.question = QuestionOf(submessages[j])
    /\ IsTodo /\ pc = "returned" =>
           \A j \in 1..Len(submessages) :
               LastNewTask(j) =>
                   /\ ret.tasks[TaskIdOf(submessages[j])].task
                          = PyStr(WidgetOf(submessages[j]).dict["task"])
                   /\ \A i \in 1..(j - 1) :
                          ( /\ IsNewTask(submessages[i])
                            /\ TaskIdOf(submessages[i]) = TaskIdOf(submessages[j])
                            /\ WidgetOf(submessages[i]).dict["task"]
                                   # WidgetOf(submessages[j]).dict["task"] ) =>
                              LET swapped == TodoFold(StrV(""), EmptyDict,
                                                      Swap(submessages, i, j))
                              IN  /\ swapped.exc = "none"
                                  /\ ret # [title |-> swapped.title,
                                            tasks |-> swapped.tasks]

\* Two new_option events of one sender and idx, with texts "C" then "D",
\* after an event that set the question: the option reads "D" and swapping the
\* two would make it read "C".
C12_Witness ==
    /\ IsPoll /\ pc = "returned"
    /\ \E i, j \in 1..Len(submessages) :
           /\ i < j
           /\ IsNewOption(submessages[i]) /\ LastNewOption(j)
           /\ OptionIdOf(submessages[i]) = OptionIdOf(submessages[j])
           /\ WidgetOf(submessages[i]).dict["option"] = StrV("C")
           /\ ret.options[OptionIdOf(submessages[j])].option = StrV("D")
           /\ PollFold(StrV(""), EmptyDict, Swap(submessages, i, j))
                  .options[OptionIdOf(submessages[j])].option = StrV("C")
    /\ \E j \in 1..Len(submessages) :
           SetsQuestion(submessages[j]) /\ ret.question = QuestionOf(submessages[j])

(***************************************************************************)
(* C13: after a todo creation with extra_data present the title is         *)
(* extra_data.task_list_title, or "Task list" when that is empty or        *)
(* missing; a new_task_list_title event sets the title to its title field, *)
(* the empty string when missing, with no default put in its place.        *)
(***************************************************************************)
HasExtraData(entry) ==
    /\ IsTodoCreation(entry)
    /\ HasKey(WidgetOf(entry), "extra_data")
    /\ ~IsNone(WidgetOf(entry).dict["extra_data"])

GivenTitle(entry) ==
    Get(WidgetOf(entry).dict["extra_data"], "task_list_title", StrV(""))

C13_TitleDefaultOnCreationOnly ==
    IsTodo =>
        \A j \in JustConsumed :
            /\ Applied(j) /\ HasExtraData(submessages[j]) =>
                   After(j).title = IF GivenTitle(submessages[j]) = StrV("")
                                    THEN StrV("Task list")
                                    ELSE GivenTitle(submessages[j])
            /\ Applied(j) /\ IsNewTitle(submessages[j]) =>
                   After(j).title = IF HasKey(WidgetOf(submessages[j]), "title")
                                    THEN WidgetOf(submessages[j]).dict["title"]
                                    ELSE StrV("")

\* A creation without a title made the title "Task list", and a later
\* new_task_list_title without a title made it empty.
C13_Witness ==
    /\ IsTodo
    /\ \E i, j \in 1..pos :
           /\ i < j /\ Applied(j)
           /\ HasExtraData(submessages[i])
           /\ GivenTitle(submessages[i]) = StrV("")
           /\ After(i).title = StrV("Task list")
           /\ IsNewTitle(submessages[j])
           /\ ~HasKey(WidgetOf(submessages[j]), "title")
           /\ After(j).title = StrV("")

(***************************************************************************)
(* C14: a todo creation whose extra_data is absent or null is not applied: *)
(* title and tasks stay as they were, and the fold goes on.                *)
(***************************************************************************)
C14_CreationWithoutExtraDataIgnored ==
    IsTodo =>
        \A j \in JustConsumed :
            IsTodoCreation(submessages[j]) /\ ~HasExtraData(submessages[j]) =>
                Applied(j) /\ After(j) = Before(j)

\* A creation with null extra_data came after a titled creation and before a
\* strike: title and tasks went through it unchanged and the strike applied.
C14_Witness ==
    /\ IsTodo
    /\ \E j \in 2..(pos - 1) :
           /\ IsTodoCreation(submessages[j]) /\ ~HasExtraData(submessages[j])
           /\ Before(j).tasks # EmptyDict
           /\ Before(j).title # StrV("")
           /\ After(j) = Before(j)
           /\ Applied(j + 1)
           /\ After(j + 1) # After(j)

(***************************************************************************)
(* C15: the fold starts from the empty state and only grows: the option    *)
(* ids (task ids) held after a prefix of the list are among those held     *)
(* after any longer prefix.                                                *)
(***************************************************************************)
IdsAfter(n) ==
    IF IsPoll THEN DOMAIN hist[n + 1].options ELSE DOMAIN hist[n + 1].tasks

C15_IdsOnlyGrow ==
    IsPoll \/ IsTodo =>
        /\ IsPoll => hist[1] = [question |-> StrV(""), options |-> EmptyDict]
        /\ IsTodo => hist[1] = [title |-> StrV(""), tasks |-> EmptyDict]
        /\ \A m, n \in 0..(Len(hist) - 1) : m <= n => IdsAfter(m) \subseteq IdsAfter(n)
        /\ IsPoll => DOMAIN options = IdsAfter(Len(hist) - 1)
        /\ IsTodo => DOMAIN tasks = IdsAfter(Len(hist) - 1)

\* A new_option registered an id and a later creation added the canned ids
\* next to it.
C15_Witness ==
    /\ IsPoll
    /\ \E j \in 2..pos :
           /\ Applied(j)
           /\ IsPollCreation(submessages[j])
           /\ DOMAIN Before(j).options # {}
           /\ DOMAIN Before(j).options \subseteq DOMAIN After(j).options
           /\ DOMAIN Before(j).options # DOMAIN After(j).options

(***************************************************************************)
(* C16: in the final poll snapshot sender s is in the votes of option o    *)
(* exactly when, among the vote events from s with key o and value 1 or -1 *)
(* that come after the last event registering o, there is one and the last *)
(* of them has value 1; a re-registration discards the votes cast before.  *)
(***************************************************************************)
CannedOptionsOf(entry) ==
    Get(WidgetOf(entry).dict["extra_data"], "options", ListV(<<>>)).list

RegistersOption(entry, id) ==
    \/ IsNewOption(entry) /\ OptionIdOf(entry) = id
    \/ /\ IsPollCreation(entry) /\ ~LacksQuestion(entry)
       /\ \E i \in 1..Len(CannedOptionsOf(entry)) : CannedOptionId(i - 1) = id

Max(S) ==
    CHOOSE x \in S : \A y \in S : y <= x

LastRegistration(id) ==
    Max({j \in 1..Len(submessages) : RegistersOption(submessages[j], id)})

\* The positions, after the last registration of id, of the votes of value 1
\* or -1 that sender s cast on id.
VotesCast(s, id) ==
    {k \in (LastRegistration(id) + 1)..Len(submessages) :
        /\ IsVote(submessages[k])
        /\ submessages[k].sender_id = s
        /\ KeyOf(submessages[k]) = StrV(id)
        /\ VoteOf(submessages[k]) \in {IntV(1), IntV(-1)}}

Senders ==
    {submessages[k].sender_id : k \in 1..Len(submessages)}

C16_VotesAreLastVotesSinceRegistration ==
    IsPoll /\ pc = "returned" =>
        \A id \in DOMAIN ret.options : \A s \in Senders :
            InList(s, ret.options[id].votes)
                <=> /\ VotesCast(s, id) # {}
                    /\ VoteOf(submessages[Max(VotesCast(s, id))]) = IntV(1)

(***************************************************************************)
(* C17: in the final todo snapshot a task is completed exactly when the    *)
(* strikes with its id as key that come after the last event registering   *)
(* the id are odd in number, whoever sent them; a re-registration resets   *)
(* completed to false.                                                     *)
(***************************************************************************)
CannedTasksOf(entry) ==
    Get(WidgetOf(entry).dict["extra_data"], "tasks", ListV(<<>>)).list

RegistersTask(entry, id) ==
    \/ IsNewTask(entry) /\ TaskIdOf(entry) = id
    \/ /\ HasExtraData(entry)
       /\ \E i \in 1..Len(CannedTasksOf(entry)) : CannedTaskId(i - 1) = id

TaskRegistrations(id) ==
    {j \in 1..Len(submessages) : RegistersTask(submessages[j], id)}

StrikesSince(id, j) ==
    {k \in (j + 1)..Len(submessages) :
        IsStrike(submessages[k]) /\ PyStr(KeyOf(submessages[k])) = id}

C17_CompletedIsParityOfStrikes ==
    IsTodo /\ pc = "returned" =>
        \A id \in DOMAIN ret.tasks :
            ret.tasks[id].completed
                <=> Cardinality(StrikesSince(id, Max(TaskRegistrations(id)))) % 2 = 1

\* A task was struck, registered again, and struck once more by a sender
\* other than the one of its registration: two strikes in all, one since the
\* last registration, and the task is completed.
C17_Witness ==
    /\ IsTodo /\ pc = "returned"
    /\ \E id \in DOMAIN ret.tasks :
           /\ Cardinality(TaskRegistrations(id)) >= 2
           /\ Cardinality(StrikesSince(id, 0)) = 2
           /\ \E k \in StrikesSince(id, Max(TaskRegistrations(id))) :
                  submessages[k].sender_id
                      # submessages[Max(TaskRegistrations(id))].sender_id
           /\ ret.tasks[id].completed

(***************************************************************************)
(* C18: a vote event from sender s with key o changes at most s's own      *)
(* membership in the votes of o: the question, the option ids, every       *)
(* option's text, the votes of the other options, and the other senders in *)
(* o's votes, in their order, are as before.                               *)
(***************************************************************************)
Others(xs, s) ==
    SelectSeq(xs, LAMBDA x : x # s)

C18_VoteTouchesOwnMembershipOnly ==
    IsPoll =>
        \A j \in JustConsumed :
            Applied(j) /\ IsVote(submessages[j]) =>
                /\ After(j).question = Before(j).question
                /\ DOMAIN After(j).options = DOMAIN Before(j).options
                /\ \A id \in DOMAIN Before(j).options :
                       /\ After(j).options[id].option = Before(j).options[id].option
                       /\ StrV(id) # KeyOf(submessages[j]) =>
                              After(j).options[id].votes = Before(j).options[id].votes
                       /\ Others(After(j).options[id].votes, submessages[j].sender_id)
                              = Others(Before(j).options[id].votes, submessages[j].sender_id)

\* A sender who came second in an option's votes withdrew the vote: the
\* first sender is all that is left of the option's votes.
C18_Witness ==
    /\ IsPoll
    /\ \E j \in 1..pos :
           /\ VotesOn(j, -1)
           /\ Len(VotesBefore(j)) = 2
           /\ VotesBefore(j)[2] = submessages[j].sender_id
           /\ After(j).options[KeyOf(submessages[j]).str].votes = <<VotesBefore(j)[1]>>

(***************************************************************************)
(* C19: an option's votes are in the order in which the votes now in force *)
(* were cast: vote(+1) from a sender not in the list appends the sender,   *)
(* vote(+1) from a sender in the list moves nothing, and a sender who      *)
(* votes -1 and later +1 again is at the end of the list.                  *)
(***************************************************************************)
VotesAfter(j) ==
    After(j).options[KeyOf(submessages[j]).str].votes

\* Vote k is the first event after vote j that is from the same sender on the
\* same key, and the option was not registered again in between.
NextVoteOfSender(j, k) ==
    /\ j < k
    /\ submessages[k].sender_id = submessages[j].sender_id
    /\ KeyOf(submessages[k]) = KeyOf(submessages[j])
    /\ \A m \in (j + 1)..(k - 1) :
           /\ ~RegistersOption(submessages[m], KeyOf(submessages[j]).str)
           /\ IsVote(submessages[m]) /\ KeyOf(submessages[m]) = KeyOf(submessages[j]) =>
                  submessages[m].sender_id # submessages[j].sender_id

C19_VotesInOrderOfCasting ==
    IsPoll =>
        \A k \in JustConsumed :
            VotesOn(k, 1) =>
                /\ VotesAfter(k) = IF InList(submessages[k].sender_id, VotesBefore(k))
                                   THEN VotesBefore(k)
                                   ELSE Append(VotesBefore(k), submessages[k].sender_id)
                /\ \A j \in 1..(k - 1) :
                       submessages[j].sender_id = submessages[k].sender_id
                       /\ VotesOn(j, -1) /\ NextVoteOfSender(j, k) =>
                           /\ VotesAfter(k) # <<>>
                           /\ VotesAfter(k)[Len(VotesAfter(k))] = submessages[k].sender_id

\* A sender first in an option's votes, before another, voted -1 and then +1
\* again and is now last, behind the other.
C19_Witness ==
    /\ IsPoll
    /\ \E j, k \in 1..pos :
           /\ VotesOn(j, -1) /\ VotesOn(k, 1) /\ NextVoteOfSender(j, k)
           /\ Len(VotesBefore(j)) = 2
           /\ VotesBefore(j)[1] = submessages[j].sender_id
           /\ VotesAfter(k) = <<VotesBefore(j)[2], VotesBefore(j)[1]>>

====
